---- MODULE Spec2Model ----
(***************************************************************************)
(* A model of lr0_parser.py: the LRParser class (closure, goto, items,     *)
(* follow, first, parse).  Python lists are sequences (index i of the code *)
(* is index i+1 here), Python sets are sets, Python dicts are functions    *)
(* whose DOMAIN is the set of keys.  An item (lhs, rhs, dot_pos) is the    *)
(* tuple <<lhs, rhs, dot_pos>> with dot_pos counted from 0 as in the code. *)
(***************************************************************************)
EXTENDS Integers, Sequences, FiniteSets, TLC

\* ------------------------------------------------------------------ bounds

\* Longest token sequence handed to parse (besides the two named inputs).
MaxLen == 3
\* Largest set of items handed to closure / goto as a direct call.
MaxItems == 2
\* Calls of items() on one parser object.
MaxRuns == 2
\* Parser objects constructed for one grammar, one after the other.
MaxParsers == 2
\* Longest token sequence handed to each of two calls of parse that run
\* interleaved (besides the two named inputs).
MaxInterleavedLen == 1
\* Depth of nested first/follow frames at which the interpreter raises
\* RecursionError (CPython's default limit is 1000 frames).
RecursionLimit == 6

\* ------------------------------------------------------- the example grammar

\* grammar of __main__: a dict in insertion order, as a sequence of
\* <<non-terminal, list of alternatives>>.
ExampleGrammar ==
    << <<"S'", << <<"S">> >> >>,
       <<"S",  << <<"E">> >> >>,
       <<"E",  << <<"E", "+", "T">>, <<"T">> >> >>,
       <<"T",  << <<"T", "*", "F">>, <<"F">> >> >>,
       <<"F",  << <<"(", "E", ")">>, <<"id">> >> >> >>

ExampleTerminals == <<"+", "*", "(", ")", "id">>

ExampleNonTerminals == <<"S", "E", "T", "F">>

ExampleStart == "S'"

\* The parser arguments of __main__.
ExampleArgs ==
    [grammar |-> ExampleGrammar, terminals |-> ExampleTerminals,
     non_terminals |-> ExampleNonTerminals, start_symbol |-> ExampleStart]

\* A second parser: a grammar with a shift/reduce conflict (after a, on t:
\* shift for S -> a t t, reduce X -> a since t follows X) on which follow
\* and first return.
ConflictArgs ==
    [grammar |-> << <<"S'", << <<"S">> >> >>,
                    <<"S",  << <<"X", "t">>, <<"a", "t", "t">> >> >>,
                    <<"X",  << <<"a">> >> >> >>,
     terminals |-> <<"a", "t">>,
     non_terminals |-> <<"S", "X">>,
     start_symbol |-> "S'"]

\* The parsers constructed: that of __main__ and the second one.
ParserArgs == {ExampleArgs, ConflictArgs}

\* The token sequence parsed by __main__.
ExampleInput == <<"id", "*", "id", "+", "id">>

\* ------------------------------------------------------------ dict helpers

\* The empty dict.
EmptyDict == [k \in {} |-> {}]

\* d[k] = v
Put(d, k, v) == [x \in (DOMAIN d) \cup {k} |-> IF x = k THEN v ELSE d[x]]

\* Reading d[k] of a defaultdict(dict): a missing key is created, empty.
Touch(d, k) == IF k \in DOMAIN d THEN d ELSE Put(d, k, EmptyDict)

\* d[k][s] = v on a defaultdict(dict)
Put2(d, k, s, v) == Put(d, k, Put(Touch(d, k)[k], s, v))

\* The elements of a list.
Range(s) == {s[i] : i \in DOMAIN s}

VARIABLES
    grammar, terminals, non_terminals, start_symbol,   \* self.* set by __init__
    action_table, goto_table, states, state_count,     \* self.* built by items
    pc,                                                \* where the parser object is
    states_queue, state_mapping, state, sym_i,         \* locals of items, first loop
    red_i, red_todo, cur_item,                         \* locals of items, second loop
    call_stack, ret,                                   \* frames of first/follow, result
    input_string, stack, index, outcome, error,        \* locals and result of parse
    other,                                             \* those of a second call of parse
    alg,                                               \* a direct call and its result
    runs, constructed, run1                            \* see Idle

vars == <<grammar, terminals, non_terminals, start_symbol,
          action_table, goto_table, states, state_count, pc,
          states_queue, state_mapping, state, sym_i, red_i, red_todo, cur_item,
          call_stack, ret, input_string, stack, index, outcome, error, other,
          alg, runs, constructed, run1>>

selfVars == <<grammar, terminals, non_terminals, start_symbol>>
tableVars == <<action_table, goto_table, states, state_count>>
loopVars == <<states_queue, state_mapping, state, sym_i>>
redVars == <<red_i, red_todo, cur_item>>
setVars == <<call_stack, ret>>
parseVars == <<input_string, stack, index, outcome, error, other>>
runVars == <<runs, constructed, run1>>

\* ------------------------------------------------------------ grammar access

\* self.grammar.get(nt, [])
Productions(nt) ==
    LET hits == {i \in DOMAIN grammar : grammar[i][1] = nt}
    IN IF hits = {} THEN <<>> ELSE grammar[CHOOSE i \in hits : TRUE][2]

\* nt in self.grammar
HasKey(nt) == \E i \in DOMAIN grammar : grammar[i][1] = nt

\* ------------------------------------------------------------ closure, goto

\* rhs[dot_pos], for an item with dot_pos < len(rhs)
next_symbol(it) == it[2][it[3] + 1]

\* One pass of the while loop of closure: the items it adds to closure_set.
new_items(closure_set) ==
    UNION { IF it[3] < Len(it[2]) /\ next_symbol(it) \in Range(non_terminals)
            THEN { <<next_symbol(it), production, 0>> :
                       production \in Range(Productions(next_symbol(it))) }
                 \ closure_set
            ELSE {} : it \in closure_set }

\* A closure that makes one pass only (an if where the code has a while).
closure_one_pass(closure_set) == closure_set \cup new_items(closure_set)

\* The while loop of closure: passes until one adds nothing.
RECURSIVE closure_loop(_)
closure_loop(closure_set) ==
    IF new_items(closure_set) = {}
    THEN closure_set
    ELSE closure_loop(closure_set \cup new_items(closure_set))

closure(items) == closure_loop({ <<it[1], it[2], it[3]>> : it \in items })

\* A goto that returns goto_set itself, the closure forgotten.
goto_without_closure(items, symbol) ==
    { <<it[1], it[2], it[3] + 1>> :
        it \in { x \in items : x[3] < Len(x[2]) /\ next_symbol(x) = symbol } }

goto(items, symbol) ==
    closure({ <<it[1], it[2], it[3] + 1>> :
                it \in { x \in items : x[3] < Len(x[2]) /\ next_symbol(x) = symbol } })

\* ------------------------------------------------------------------ __init__

\* The fields __init__ sets from its arguments, and the empty automaton.
init_self(args) ==
    /\ grammar = args.grammar
    /\ terminals = args.terminals \o <<"$">>
    /\ non_terminals = args.non_terminals
    /\ start_symbol = args.start_symbol
    /\ action_table = EmptyDict
    /\ goto_table = EmptyDict
    /\ states = <<>>
    /\ state_count = 0

\* The locals of a call of parse that is not running.
no_call == [input_string |-> <<>>, stack |-> <<>>, index |-> 0,
            outcome |-> "idle", error |-> <<>>]

\* Everything outside the parser object: no call is in progress.
Idle ==
    /\ pc = "new"
    /\ states_queue = <<>>
    /\ state_mapping = EmptyDict
    /\ state = {}
    /\ sym_i = 0
    /\ red_i = 0
    /\ red_todo = {}
    /\ cur_item = <<>>
    /\ call_stack = <<>>
    /\ ret = {}
    /\ input_string = <<>>
    /\ stack = <<>>
    /\ index = 0
    /\ outcome = "idle"
    /\ error = <<>>
    /\ other = no_call
    /\ alg = [op |-> "none"]
    /\ runs = 0                 \* calls of items() on this parser object
    /\ constructed = 1          \* parser objects constructed so far
    /\ run1 = [op |-> "none"]   \* what the first completed items() built

Init == \E args \in ParserArgs : init_self(args) /\ Idle

\* --------------------------------------------------------------------- items

\* Lines 52-57: the initial state, the queue and the mapping.
items_begin ==
    /\ LET initial_item == <<start_symbol, Productions(start_symbol)[1], 0>>
           initial_state == closure({initial_item})
       IN /\ states' = Append(states, initial_state)
          /\ states_queue' = <<initial_state>>
          /\ state_mapping' = Put(EmptyDict, initial_state, 0)
    /\ pc' = "while"
    /\ runs' = runs + 1
    /\ UNCHANGED <<selfVars, action_table, goto_table, state_count, state, sym_i,
                   redVars, setVars, parseVars, alg, constructed, run1>>

\* The call of items() on a newly constructed parser.
ItemsStart == pc = "new" /\ items_begin

\* Lines 59-61: take the next state off the queue.
ItemsPop ==
    /\ pc = "while"
    /\ states_queue # <<>>
    /\ state' = Head(states_queue)
    /\ states_queue' = Tail(states_queue)
    /\ sym_i' = 1
    /\ pc' = "for"
    /\ UNCHANGED <<selfVars, tableVars, state_mapping, redVars, setVars, parseVars,
                   alg, runVars>>

\* A for loop over the terminals alone.
symbols_terminals_only == terminals

\* self.terminals + self.non_terminals
symbols == terminals \o non_terminals

\* An edge recorded for terminals only, the goto table never written.
record_edge_shift_only(state_index, symbol, next_state_index) ==
    [action_table |->
        IF symbol \in Range(terminals)
        THEN Put2(action_table, state_index, symbol, <<"shift", next_state_index>>)
        ELSE action_table,
     goto_table |-> goto_table]

\* Lines 73-76: the two tables with the edge on symbol recorded.
record_edge(state_index, symbol, next_state_index) ==
    IF symbol \in Range(terminals)
    THEN [action_table |-> Put2(action_table, state_index, symbol,
                                <<"shift", next_state_index>>),
          goto_table |-> goto_table]
    ELSE [action_table |-> action_table,
          goto_table |-> Put2(goto_table, state_index, symbol, next_state_index)]

\* A test by identity: the set goto has just built is a new object, found in
\* no mapping.
not_in_mapping_by_identity(next_state, mapping) == TRUE

\* Line 67: next_state_frozen not in state_mapping, the frozensets compared
\* by their elements.
not_in_mapping(next_state, mapping) == next_state \notin DOMAIN mapping

\* Lines 63-76: one pass of the for loop, for symbols[sym_i].
ItemsSymbol ==
    /\ pc = "for"
    /\ LET symbol == symbols[sym_i]
           state_index == state_mapping[state]
           next_state == goto(state, symbol)
           fresh == not_in_mapping(next_state, state_mapping)
           mapping == IF fresh THEN Put(state_mapping, next_state, state_count + 1)
                      ELSE state_mapping
           next_state_index == mapping[next_state]
       IN IF next_state # {}
          THEN /\ state_count' = IF fresh THEN state_count + 1 ELSE state_count
               /\ state_mapping' = mapping
               /\ states_queue' = IF fresh THEN Append(states_queue, next_state)
                                  ELSE states_queue
               /\ states' = IF fresh THEN Append(states, next_state) ELSE states
               /\ action_table' =
                     record_edge(state_index, symbol, next_state_index).action_table
               /\ goto_table' =
                     record_edge(state_index, symbol, next_state_index).goto_table
          ELSE UNCHANGED <<tableVars, states_queue, state_mapping>>
    /\ IF sym_i < Len(symbols)
       THEN sym_i' = sym_i + 1 /\ pc' = "for"
       ELSE sym_i' = 0 /\ pc' = "while"
    /\ UNCHANGED <<selfVars, state, redVars, setVars, parseVars, alg, runVars>>

\* Line 59 with the queue empty, line 79: the first loop ends, enumerate begins.
ItemsQueueEmpty ==
    /\ pc = "while"
    /\ states_queue = <<>>
    /\ red_i' = 0
    /\ pc' = "enumerate"
    /\ UNCHANGED <<selfVars, tableVars, loopVars, red_todo, cur_item, setVars,
                   parseVars, alg, runVars>>

\* states[i] of the code
StateAt(i) == states[i + 1]

\* The items of a state on which line 81 holds.
complete_items(st) == { it \in st : it[3] = Len(it[2]) }

\* ------------------------------------------------------------- follow, first

\* The iterations of lines 105-107 for one production: <<lhs, production, i>>.
symbol_positions(lhs, production) ==
    [i \in 1..Len(production) |-> <<lhs, production, i>>]

\* ... for the alternatives of one non-terminal, from the k-th on.
RECURSIVE production_positions(_, _, _)
production_positions(lhs, productions, k) ==
    IF k > Len(productions) THEN <<>>
    ELSE symbol_positions(lhs, productions[k])
         \o production_positions(lhs, productions, k + 1)

\* ... for the whole grammar, from its g-th entry on, in the dict's order.
RECURSIVE grammar_positions(_)
grammar_positions(g) ==
    IF g > Len(grammar) THEN <<>>
    ELSE production_positions(grammar[g][1], grammar[g][2], 1)
         \o grammar_positions(g + 1)

\* A frame whose follow_set never gets the end marker.
new_frame_without_end_marker(fn, non_terminal) ==
    [fn |-> fn, non_terminal |-> non_terminal, n |-> 0, set |-> {}]

\* A frame of follow (lines 102-104) or first (line 123) as the call begins:
\* n counts the loop passes done, set is follow_set / first_set.
new_frame(fn, non_terminal) ==
    [fn |-> fn, non_terminal |-> non_terminal, n |-> 0,
     set |-> IF fn = "follow" /\ non_terminal = start_symbol THEN {"$"} ELSE {}]

\* What one pass of the loop of the top frame does: add a terminal to the
\* frame's set, call first or follow, or nothing; "return" when the loop is over.
frame_step(f) ==
    IF f.fn = "first"
    THEN IF ~HasKey(f.non_terminal) THEN [do |-> "raise", what |-> "KeyError"]
         ELSE IF f.n >= Len(Productions(f.non_terminal)) THEN [do |-> "return"]
         ELSE LET production == Productions(f.non_terminal)[f.n + 1]
              IN IF production = <<>> THEN [do |-> "raise", what |-> "IndexError"]
                 ELSE IF production[1] \in Range(terminals)
                 THEN [do |-> "add", symbol |-> production[1]]
                 ELSE [do |-> "call", fn |-> "first", arg |-> production[1]]
    ELSE IF f.n >= Len(grammar_positions(1)) THEN [do |-> "return"]
         ELSE LET pos == grammar_positions(1)[f.n + 1]
                  lhs == pos[1]
                  production == pos[2]
                  i == pos[3]
              IN IF production[i] # f.non_terminal THEN [do |-> "skip"]
                 ELSE IF i < Len(production)
                 THEN IF production[i + 1] \in Range(terminals)
                      THEN [do |-> "add", symbol |-> production[i + 1]]
                      ELSE [do |-> "call", fn |-> "first", arg |-> production[i + 1]]
                 ELSE [do |-> "call", fn |-> "follow", arg |-> lhs]

\* The top frame.
top_frame == call_stack[Len(call_stack)]

\* The call stack with its top frame replaced.
with_top(f) == [call_stack EXCEPT ![Len(call_stack)] = f]

\* The pc to which a call made at `at` returns, and the pc of its running.
after_call(at) == IF at = "follow" THEN "write" ELSE "returned"

\* Lines 105-116, 124-128: one pass of the loop of the running first/follow
\* call, which adds a terminal, finds nothing to do, or makes a nested call;
\* a nested call deeper than the interpreter allows raises RecursionError, and
\* an exception unwinds every frame and the caller (items, when it called).
SetStep ==
    /\ pc \in {"follow", "direct"}
    /\ call_stack # <<>>
    /\ LET f == top_frame
           step == frame_step(f)
       IN /\ step.do # "return"
          /\ CASE step.do = "add" ->
                    /\ call_stack' = with_top([f EXCEPT !.n = f.n + 1,
                                                        !.set = f.set \cup {step.symbol}])
                    /\ UNCHANGED pc
               [] step.do = "skip" ->
                    /\ call_stack' = with_top([f EXCEPT !.n = f.n + 1])
                    /\ UNCHANGED pc
               [] step.do = "call" ->
                    IF Len(call_stack) >= RecursionLimit
                    THEN call_stack' = <<>> /\ pc' = "RecursionError"
                    ELSE /\ call_stack' = Append(call_stack, new_frame(step.fn, step.arg))
                         /\ UNCHANGED pc
               [] step.do = "raise" ->
                    call_stack' = <<>> /\ pc' = step.what
    /\ UNCHANGED <<selfVars, tableVars, loopVars, redVars, ret, parseVars, alg, runVars>>

\* Lines 117, 129 with lines 114, 116, 128: the running call returns its set,
\* which the calling frame adds to its own (update) before its next pass.
SetReturn ==
    /\ pc \in {"follow", "direct"}
    /\ call_stack # <<>>
    /\ frame_step(top_frame).do = "return"
    /\ IF Len(call_stack) = 1
       THEN /\ ret' = top_frame.set
            /\ call_stack' = <<>>
            /\ pc' = after_call(pc)
       ELSE LET caller == call_stack[Len(call_stack) - 1]
            IN /\ call_stack' =
                     Append(SubSeq(call_stack, 1, Len(call_stack) - 2),
                            [caller EXCEPT !.n = caller.n + 1,
                                           !.set = caller.set \cup top_frame.set])
               /\ UNCHANGED <<ret, pc>>
    /\ UNCHANGED <<selfVars, tableVars, loopVars, redVars, parseVars, alg, runVars>>

\* --------------------------------------------------- items: reduce and accept

\* Line 79: the next state of enumerate(self.states), or the end of items.
ItemsEnumerate ==
    /\ pc = "enumerate"
    /\ IF red_i < Len(states)
       THEN /\ red_todo' = complete_items(StateAt(red_i))
            /\ pc' = "item"
            /\ UNCHANGED run1
       ELSE /\ pc' = "done"
            /\ red_todo' = {}
            /\ run1' = IF run1.op = "none"
                       THEN [op |-> "items", state_count |-> state_count,
                             n_states |-> Len(states),
                             action_table |-> action_table, goto_table |-> goto_table]
                       ELSE run1
    /\ UNCHANGED <<selfVars, tableVars, loopVars, red_i, cur_item, setVars,
                   parseVars, alg, runs, constructed>>

\* The action table after action_table[i][t] = v for every t of ts.
RECURSIVE put_all(_, _, _, _)
put_all(d, i, ts, v) ==
    IF ts = {} THEN d
    ELSE LET t == CHOOSE x \in ts : TRUE
         IN put_all(Put2(d, i, t, v), i, ts \ {t}, v)

\* An accept written for every terminal, as a reduce of S' -> S would be in
\* an LR(0) table.
accept_on_every_terminal(d, i) == put_all(d, i, Range(terminals), <<"accept">>)

\* Line 83: self.action_table[i]['$'] = ('accept',)
accept_on_end_marker(d, i) == Put2(d, i, "$", <<"accept">>)

\* Lines 80-86: the next complete item of states[red_i], in the order the set
\* yields them (any): accept for the start symbol, else the call of follow.
\* Items with the dot inside do nothing (line 81) and are passed over.
ItemsItem ==
    /\ pc = "item"
    /\ red_todo # {}
    /\ \E it \in red_todo :
          /\ red_todo' = red_todo \ {it}
          /\ cur_item' = it
          /\ IF it[1] = start_symbol
             THEN /\ action_table' = accept_on_end_marker(action_table, red_i)
                  /\ UNCHANGED <<pc, call_stack>>
             ELSE /\ call_stack' = <<new_frame("follow", it[1])>>
                  /\ pc' = "follow"
                  /\ UNCHANGED action_table
    /\ UNCHANGED <<selfVars, goto_table, states, state_count, loopVars, red_i, ret,
                   parseVars, alg, runVars>>

\* A reduce written only to the cells that hold no action yet.
put_all_absent(d, i, ts, v) ==
    put_all(d, i, { t \in ts : t \notin DOMAIN Touch(d, i)[i] }, v)

\* A reduce written for every terminal, whatever follow returned (the table
\* of an LR(0) parser).
put_all_terminals(d, i, ts, v) == put_all(d, i, Range(terminals), v)

\* Lines 86-87: self.action_table[i][terminal] = ('reduce', lhs, rhs) for
\* every terminal of the set follow returned.
reduce_written(d, i, ts, v) == put_all(d, i, ts, v)

\* Lines 86-87: follow has returned; a reduce for each of its terminals.
ItemsWrite ==
    /\ pc = "write"
    /\ action_table' = reduce_written(action_table, red_i, ret,
                                      <<"reduce", cur_item[1], cur_item[2]>>)
    /\ pc' = "item"
    /\ UNCHANGED <<selfVars, goto_table, states, state_count, loopVars, redVars,
                   setVars, parseVars, alg, runVars>>

\* Line 80 with the items of states[red_i] exhausted: on to the next state.
ItemsNextState ==
    /\ pc = "item"
    /\ red_todo = {}
    /\ red_i' = red_i + 1
    /\ pc' = "enumerate"
    /\ UNCHANGED <<selfVars, tableVars, loopVars, red_todo, cur_item, setVars,
                   parseVars, alg, runVars>>

\* items(), step by step.
ItemsNext ==
    \/ ItemsStart
    \/ ItemsPop
    \/ ItemsSymbol
    \/ ItemsQueueEmpty
    \/ ItemsEnumerate
    \/ ItemsItem
    \/ SetStep
    \/ SetReturn
    \/ ItemsWrite
    \/ ItemsNextState

\* --------------------------------------------------------------------- parse

\* The tokens a caller may hand to parse: the terminals, the end marker
\* itself, and a name that is no terminal.
Tokens == Range(terminals) \cup {"E"}

\* Every token sequence of length n.
TokenSeqs(n) == [1..n -> Tokens]

\* The token sequences parse is called with.
Inputs == (UNION { TokenSeqs(n) : n \in 0..MaxLen }) \cup {ExampleInput}

\* Lines 180-182: the call of parse on a constructed parser.
ParseCall ==
    /\ pc = "done"
    /\ outcome = "idle"
    /\ \E inp \in Inputs : input_string' = inp \o <<"$">>
    /\ stack' = <<0>>
    /\ index' = 0
    /\ outcome' = "running"
    /\ error' = <<>>
    /\ UNCHANGED <<selfVars, tableVars, pc, loopVars, redVars, setVars, other, alg,
                   runVars>>

\* The stack read from its bottom: stack[k - 1] for stack[-k].
from_bottom(stk, k) == stk[k]

\* stack[-k]
from_top(stk, k) == stk[Len(stk) + 1 - k]

\* A shift that pushes the state and forgets the symbol.
shifted_stack_state_only(stk, symbol, dest) == Append(stk, dest)

\* Lines 199-200, the stack of a shift: push the symbol, then the state.
shifted_stack(stk, symbol, dest) == stk \o <<symbol, dest>>

\* A reduce that pushes lhs without popping the right-hand side.
reduced_stack_without_pop(stk, lhs, rhs) == Append(stk, lhs)

\* Lines 204-210, the stack of a reduce: pop 2*len(rhs) entries, push lhs.
reduced_stack(stk, lhs, rhs) == Append(SubSeq(stk, 1, Len(stk) - 2 * Len(rhs)), lhs)

\* Lines 187-220: one pass of the loop of parse, for a call whose locals are
\* inp (input_string), stk (stack) and idx (index), on the tables at and gt
\* (self.action_table, self.goto_table): the locals, the outcome and the
\* tables after the pass.  Reading a table of kind defaultdict at a missing
\* state creates that state's empty row.
loop_pass(inp, stk, idx, at, gt) ==
    LET raised(what) ==
            [stack |-> stk, index |-> idx, outcome |-> what, error |-> <<>>,
             action_table |-> at, goto_table |-> gt]
    IN IF idx >= Len(inp) \/ stk = <<>>
       THEN raised("IndexError")
       ELSE
       LET top == from_top(stk, 1)
           current_symbol == inp[idx + 1]
           table == Touch(at, top)
           here(what, err) ==
               [stack |-> stk, index |-> idx, outcome |-> what, error |-> err,
                action_table |-> table, goto_table |-> gt]
       IN IF current_symbol \notin DOMAIN table[top]
          THEN here("SyntaxError", <<idx, current_symbol>>)
          ELSE
          LET action == table[top][current_symbol]
          IN CASE action[1] = "shift" ->
                    [stack |-> shifted_stack(stk, current_symbol, action[2]),
                     index |-> idx + 1, outcome |-> "running", error |-> <<>>,
                     action_table |-> table, goto_table |-> gt]
               [] action[1] = "reduce" ->
                    LET lhs == action[2]
                        rhs == action[3]
                        popped == reduced_stack(stk, lhs, rhs)
                    IN IF 2 * Len(rhs) > Len(stk) \/ Len(popped) < 2
                       THEN here("IndexError", <<>>)
                       ELSE
                       LET gotos == Touch(gt, from_top(popped, 2))
                       IN IF lhs \notin DOMAIN gotos[from_top(popped, 2)]
                          THEN [stack |-> popped, index |-> idx,
                                outcome |-> "KeyError", error |-> <<>>,
                                action_table |-> table, goto_table |-> gotos]
                          ELSE [stack |-> Append(popped,
                                                 gotos[from_top(popped, 2)][lhs]),
                                index |-> idx, outcome |-> "running",
                                error |-> <<>>,
                                action_table |-> table, goto_table |-> gotos]
               [] action[1] = "accept" -> here("accept", <<>>)
               [] OTHER -> here("UnexpectedAction", <<>>)

\* Lines 187-220: one pass of the loop of the running call of parse.
ParseStep ==
    /\ outcome = "running"
    /\ LET pass == loop_pass(input_string, stack, index, action_table, goto_table)
       IN /\ stack' = pass.stack
          /\ index' = pass.index
          /\ outcome' = pass.outcome
          /\ error' = pass.error
          /\ action_table' = pass.action_table
          /\ goto_table' = pass.goto_table
    /\ UNCHANGED <<selfVars, states, state_count, pc, loopVars, redVars, setVars,
                   input_string, other, alg, runVars>>

\* Lines 191, 218, 220: parse has returned or raised; its locals are gone, the
\* parser object stays as the call left it and can be called again.
ParseReturn ==
    /\ outcome \notin {"idle", "running"}
    /\ outcome' = "idle"
    /\ input_string' = <<>>
    /\ stack' = <<>>
    /\ index' = 0
    /\ error' = <<>>
    /\ UNCHANGED <<selfVars, tableVars, pc, loopVars, redVars, setVars, other, alg,
                   runVars>>

\* The parser of __main__: constructed, then items() once, then calls of parse.
Next == ItemsNext \/ ParseCall \/ ParseStep \/ ParseReturn

Spec == Init /\ [][Next]_vars

\* ------------------------------------------------------- claims about parse

\* The parser is that of the example grammar.
example == grammar = ExampleGrammar

\* parse of the example grammar's parser has returned or raised on inp.
parsed(inp) ==
    example /\ input_string = inp \o <<"$">> /\ outcome \notin {"idle", "running"}

\* C1: on the tables items() builds for the example grammar, parse of
\* [id, *, id, +, id] ends in accept (returns True), never in a syntax error
\* or any other exception.
C1_ExampleAccepted == parsed(ExampleInput) => outcome = "accept"

\* C1's case: parse of [id, *, id, +, id] has accepted, all five tokens read.
C1_Witness == parsed(ExampleInput) /\ outcome = "accept" /\ index = 5

\* C2: on the same tables, parse of [id, +] ends in the syntax error raised
\* with the cursor on the appended end marker (position 2, symbol $), the
\* action table holding no entry for (top state, $); it never accepts.
C2_TrailingOperator ==
    parsed(<<"id", "+">>) =>
        /\ outcome = "SyntaxError"
        /\ error = <<2, "$">>
        /\ index = 2
        /\ "$" \notin DOMAIN action_table[from_top(stack, 1)]

\* C2's case: parse of [id, +] has raised the syntax error at position 2, $.
C2_Witness == parsed(<<"id", "+">>) /\ outcome = "SyntaxError" /\ error = <<2, "$">>

\* C3: whatever the token sequence, parse ends only in accept or in the
\* syntax error of a missing action-table entry for (top state, current
\* symbol), which carries the cursor position and that symbol; no reduce
\* misses its goto-table entry (KeyError) or pops the bottom state 0
\* (IndexError), and the 'Unexpected action' branch is not taken.
C3_OnlySyntaxError ==
    /\ outcome \in {"idle", "running", "accept", "SyntaxError"}
    /\ outcome # "idle" => Len(stack) >= 1 /\ stack[1] = 0
    /\ outcome = "SyntaxError" =>
          /\ error = <<index, input_string[index + 1]>>
          /\ error[2] \notin DOMAIN action_table[from_top(stack, 1)]

\* C3's case: a reduce has run (the stack holds a non-terminal above state
\* 0) and the parse then failed on a missing action-table entry.
C3_Witness ==
    /\ outcome = "SyntaxError"
    /\ Len(stack) >= 3
    /\ stack[2] = "E"
    /\ error = <<2, ")">>

\* ------------------------------------------------------- claims about items

Item(lhs, rhs, dot_pos) == <<lhs, rhs, dot_pos>>

\* The items with the dot in front, by non-terminal, of the textbook grammar.
DotE == {Item("E", <<"E", "+", "T">>, 0), Item("E", <<"T">>, 0)}
DotT == {Item("T", <<"T", "*", "F">>, 0), Item("T", <<"F">>, 0)}
DotF == {Item("F", <<"(", "E", ")">>, 0), Item("F", <<"id">>, 0)}

\* The initial item set of the textbook construction.
TextbookI0 ==
    {Item("S'", <<"S">>, 0), Item("S", <<"E">>, 0)} \cup DotE \cup DotT \cup DotF

\* The canonical collection of LR(0) item sets of S'->S, S->E, E->E+T|T,
\* T->T*F|F, F->(E)|id, written out from the textbook construction.
TextbookCollection ==
    { TextbookI0,
      {Item("S'", <<"S">>, 1)},
      {Item("S", <<"E">>, 1), Item("E", <<"E", "+", "T">>, 1)},
      {Item("E", <<"T">>, 1), Item("T", <<"T", "*", "F">>, 1)},
      {Item("T", <<"F">>, 1)},
      {Item("F", <<"(", "E", ")">>, 1)} \cup DotE \cup DotT \cup DotF,
      {Item("F", <<"id">>, 1)},
      {Item("E", <<"E", "+", "T">>, 2)} \cup DotT \cup DotF,
      {Item("T", <<"T", "*", "F">>, 2)} \cup DotF,
      {Item("F", <<"(", "E", ")">>, 2), Item("E", <<"E", "+", "T">>, 1)},
      {Item("E", <<"E", "+", "T">>, 3), Item("T", <<"T", "*", "F">>, 1)},
      {Item("T", <<"T", "*", "F">>, 3)},
      {Item("F", <<"(", "E", ")">>, 3)} }

\* C6: for the textbook grammar items() produces exactly the standard
\* canonical collection: 13 states (indices 0..12, state_count 12), each one
\* of the standard item sets and each standard item set among them, the
\* initial item set at index 0.
C6_CanonicalCollection ==
    example /\ pc = "done" =>
        /\ Len(states) = 13
        /\ state_count = 12
        /\ Range(states) = TextbookCollection
        /\ Cardinality(TextbookCollection) = 13
        /\ StateAt(0) = TextbookI0

\* C6's case: items() has returned on the example grammar's parser.
C6_Witness == example /\ pc = "done" /\ Len(states) = 13 /\ runs = 1

\* The recorded edges: <<i, j>> for a shift(j) in row i of the action table
\* or a j in row i of the goto table.
recorded_edges ==
    { <<i, action_table[i][t][2]>> :
        <<i, t>> \in { p \in (DOMAIN action_table) \X Range(terminals) :
                         /\ p[2] \in DOMAIN action_table[p[1]]
                         /\ action_table[p[1]][p[2]][1] = "shift" } }
    \cup
    { <<i, goto_table[i][n]>> :
        <<i, n>> \in { p \in (DOMAIN goto_table) \X Range(non_terminals) :
                         p[2] \in DOMAIN goto_table[p[1]] } }

\* The state indices reachable from the set `from` along the edges.
RECURSIVE reachable_along(_, _)
reachable_along(edges, from) ==
    LET more == { e[2] : e \in { x \in edges : x[1] \in from } } \ from
    IN IF more = {} THEN from ELSE reachable_along(edges, from \cup more)

\* Every state of the state list is reachable from state 0 along recorded
\* edges.
all_reachable ==
    LET found == reachable_along(recorded_edges, {0})
    IN \A i \in 0..(Len(states) - 1) : i \in found

\* The claim C10 as stated: during the construction (after each pass of its
\* loops) and at its end, every state of the state list is reachable from
\* state 0 along recorded shift/goto edges: no orphan state is stored.
C10_NoOrphanState == states # <<>> => all_reachable

\* No reduce or accept has replaced a shift: every cell of the action table
\* that holds one is on a terminal on which its state has no successor.
no_shift_replaced ==
    \A i \in DOMAIN action_table : \A t \in DOMAIN action_table[i] :
        action_table[i][t][1] # "shift" => goto(StateAt(i), t) = {}

\* C10, amended: as long as no reduce or accept has replaced a shift edge in
\* the action table (throughout the first loop, which discovers the states,
\* and to the end of items() for a grammar without shift/reduce conflict),
\* every state of the state list is reachable from state 0 along recorded
\* shift/goto edges.
C10_NoOrphanUntilShiftReplaced ==
    states # <<>> /\ no_shift_replaced => all_reachable

\* C10's case: in the middle of the first loop, with states discovered, and at
\* the end of the construction of the example grammar's parser.
C10_Witness ==
    \/ pc = "for" /\ Len(states) = 7 /\ all_reachable
    \/ pc = "done" /\ Len(states) = 13 /\ no_shift_replaced /\ all_reachable

\* ------------------------------------------ direct calls of closure and goto

\* Every item of the grammar: a production with the dot at any place.
AllItems ==
    UNION { UNION { { Item(grammar[g][1], grammar[g][2][k], d) :
                        d \in 0..Len(grammar[g][2][k]) } :
                    k \in DOMAIN grammar[g][2] } :
            g \in DOMAIN grammar }

\* The sets of items handed to closure.
RECURSIVE subsets_up_to(_, _)
subsets_up_to(S, n) ==
    IF n = 0 THEN {{}}
    ELSE LET smaller == subsets_up_to(S, n - 1)
         IN smaller \cup { X \cup {x} : <<X, x>> \in smaller \X S }

ItemSets == subsets_up_to(AllItems, MaxItems)

\* closure(X) for a set X of items, on a constructed parser: the first of a
\* series of calls, each later one on the result of the one before.
CallClosure ==
    /\ pc = "done"
    /\ alg.op = "none"
    /\ \E X \in ItemSets :
          alg' = [op |-> "closure", items |-> X, symbol |-> "", result |-> closure(X)]
    /\ UNCHANGED <<selfVars, tableVars, pc, loopVars, redVars, setVars, parseVars,
                   runVars>>

\* closure(Y) for the set Y that closure has just returned.
CallClosureAgain ==
    /\ pc = "done"
    /\ alg.op = "closure"
    /\ alg' = [op |-> "closure_again", items |-> alg.result, symbol |-> "",
               result |-> closure(alg.result)]
    /\ UNCHANGED <<selfVars, tableVars, pc, loopVars, redVars, setVars, parseVars,
                   runVars>>

\* goto(Y, symbol) for the set Y that closure or goto has just returned.
CallGoto ==
    /\ pc = "done"
    /\ alg.op \in {"closure", "closure_again", "goto"}
    /\ \E symbol \in Range(symbols) :
          alg' = [op |-> "goto", items |-> alg.result, symbol |-> symbol,
                  result |-> goto(alg.result, symbol)]
    /\ UNCHANGED <<selfVars, tableVars, pc, loopVars, redVars, setVars, parseVars,
                   runVars>>

NextAlgebra == ItemsNext \/ CallClosure \/ CallClosureAgain \/ CallGoto

\* items() once, then calls of closure and goto on sets of items.
SpecAlgebra == Init /\ [][NextAlgebra]_vars

\* C8: closure is idempotent, closure(closure(X)) = closure(X), and
\* closure(X) contains X, for every set X of items of the grammar.
C8_ClosureIdempotent ==
    /\ alg.op = "closure" => alg.items \subseteq alg.result
    /\ alg.op = "closure_again" => alg.result = alg.items

\* C8's case: closure(closure(X)) computed for an X to which closure added
\* items.
C8_Witness ==
    /\ alg.op = "closure_again"
    /\ Cardinality(alg.result) > MaxItems
    /\ alg.result = alg.items

\* No item can be added: for every item of the set with a non-terminal N
\* after the dot, the set holds (N, alpha, 0) for every alternative alpha of N.
closure_complete(set) ==
    \A it \in set :
        it[3] < Len(it[2]) /\ it[2][it[3] + 1] \in Range(non_terminals) =>
            \A k \in 1..Len(Productions(it[2][it[3] + 1])) :
                Item(it[2][it[3] + 1], Productions(it[2][it[3] + 1])[k], 0) \in set

\* C9: every set goto(closure(X), symbol) returns, and every state items()
\* stores in the state list, is closure-complete.
C9_ClosureComplete ==
    /\ alg.op = "goto" => closure_complete(alg.result)
    /\ \A i \in DOMAIN states : closure_complete(states[i])

\* C9's case: goto has returned a set with items that only closure adds, and
\* items() has stored all its states.
C9_Witness ==
    /\ alg.op = "goto"
    /\ \E it \in alg.result : it[3] = 0
    /\ \E it \in alg.result : it[3] > 0
    /\ Len(states) > 1
    /\ \E it \in StateAt(1) : it[3] = 0

\* ------------------------------------------------------- constructing again

\* items() called once more on a parser whose items() has returned.
ItemsAgain == pc = "done" /\ runs < MaxRuns /\ items_begin

\* A constructor that leaves the tables, the state list and state_count as
\* they are (attributes of the class, shared by its objects).
ReinitShared ==
    /\ pc = "done"
    /\ constructed < MaxParsers
    /\ constructed' = constructed + 1
    /\ pc' = "new"
    /\ runs' = 0
    /\ UNCHANGED <<selfVars, tableVars, loopVars, redVars, setVars, parseVars,
                   alg, run1>>

\* Lines 4-12: LRParser(...) once more, for the same grammar: a new object
\* with empty tables, an empty state list and state_count 0, and no call
\* running on it.
Reinit ==
    /\ pc = "done"
    /\ constructed < MaxParsers
    /\ constructed' = constructed + 1
    /\ action_table' = EmptyDict
    /\ goto_table' = EmptyDict
    /\ states' = <<>>
    /\ state_count' = 0
    /\ pc' = "new"
    /\ runs' = 0
    /\ states_queue' = <<>>
    /\ state_mapping' = EmptyDict
    /\ state' = {}
    /\ sym_i' = 0
    /\ red_i' = 0
    /\ red_todo' = {}
    /\ cur_item' = <<>>
    /\ ret' = {}
    /\ UNCHANGED <<selfVars, call_stack, parseVars, alg, run1>>

NextRerun == ItemsNext \/ ItemsAgain \/ Reinit

\* Constructions for one grammar, on the same parser object and on new ones.
SpecRerun == Init /\ [][NextRerun]_vars

\* The state count and the two tables are those of the first construction.
same_as_first_run ==
    /\ state_count = run1.state_count
    /\ Len(states) = run1.n_states
    /\ action_table = run1.action_table
    /\ goto_table = run1.goto_table

RightRecursiveArgs ==
    [grammar |-> << <<"S'", << <<"A">> >> >>,
                    <<"A",  << <<"a", "A">>, <<"b">> >> >> >>,
     terminals |-> <<"a", "b">>,
     non_terminals |-> <<"A">>,
     start_symbol |-> "S'"]

\* S' -> A, A -> B a | a, B -> A b | b: left recursion through A and B.
MutualLeftArgs ==
    [grammar |-> << <<"S'", << <<"A">> >> >>,
                    <<"A",  << <<"B", "a">>, <<"a">> >> >>,
                    <<"B",  << <<"A", "b">>, <<"b">> >> >> >>,
     terminals |-> <<"a", "b">>,
     non_terminals |-> <<"A", "B">>,
     start_symbol |-> "S'"]

\* S' -> A, A -> a B | a, B -> b A | b: A and B each end a production of
\* the other.
MutualFollowArgs ==
    [grammar |-> << <<"S'", << <<"A">> >> >>,
                    <<"A",  << <<"a", "B">>, <<"a">> >> >>,
                    <<"B",  << <<"b", "A">>, <<"b">> >> >> >>,
     terminals |-> <<"a", "b">>,
     non_terminals |-> <<"A", "B">>,
     start_symbol |-> "S'"]

\* S' -> A, A -> B C, B -> b, C -> c | B: no recursion at all.
ChainArgs ==
    [grammar |-> << <<"S'", << <<"A">> >> >>,
                    <<"A",  << <<"B", "C">> >> >>,
                    <<"B",  << <<"b">> >> >>,
                    <<"C",  << <<"c">>, <<"B">> >> >> >>,
     terminals |-> <<"b", "c">>,
     non_terminals |-> <<"A", "B", "C">>,
     start_symbol |-> "S'"]

\* S -> ( S ) | x with S itself the start symbol (no S' -> S added): the
\* start symbol occurs in a production.
SelfStartArgs ==
    [grammar |-> << <<"S", << <<"(", "S", ")">>, <<"x">> >> >> >>,
     terminals |-> <<"(", ")", "x">>,
     non_terminals |-> <<"S">>,
     start_symbol |-> "S"]

\* The parsers on which first and follow are called.
SetArgs == {ExampleArgs, ConflictArgs, RightRecursiveArgs, MutualLeftArgs,
            MutualFollowArgs, ChainArgs, SelfStartArgs}

InitSets == \E args \in SetArgs : init_self(args) /\ Idle

\* The keys of the grammar.
Keys == { grammar[g][1] : g \in DOMAIN grammar }

\* first(non_terminal), called from outside on a constructed parser.
CallFirst ==
    /\ pc = "new"
    /\ \E non_terminal \in Keys :
          /\ call_stack' = <<new_frame("first", non_terminal)>>
          /\ alg' = [op |-> "first", items |-> {}, symbol |-> non_terminal,
                     result |-> {}]
    /\ pc' = "direct"
    /\ UNCHANGED <<selfVars, tableVars, loopVars, redVars, ret, parseVars, runVars>>

\* follow(non_terminal), called from outside on a constructed parser.
CallFollow ==
    /\ pc = "new"
    /\ \E non_terminal \in Keys :
          /\ call_stack' = <<new_frame("follow", non_terminal)>>
          /\ alg' = [op |-> "follow", items |-> {}, symbol |-> non_terminal,
                     result |-> {}]
    /\ pc' = "direct"
    /\ UNCHANGED <<selfVars, tableVars, loopVars, redVars, ret, parseVars, runVars>>

NextSets == CallFirst \/ CallFollow \/ SetStep \/ SetReturn

\* One call of first or follow on a parser of one of the grammars.
SpecSets == InitSets /\ [][NextSets]_vars

\* The claim C4: first(N) terminates for every non-terminal N, also of a
\* grammar with left recursion (E -> E + T, or A -> B a with B -> A b): the
\* recursion into a non-terminal already being computed is cut off, so the
\* call returns its set and never runs into the interpreter's recursion limit.
C4_FirstTerminates == alg.op = "first" => pc # "RecursionError"

\* The claim C5: follow(N) terminates for every non-terminal N, also when
\* FOLLOW sets depend on themselves or on each other (A -> a A, or A -> a B
\* with B -> b A): a non-terminal met again contributes the empty set, so the
\* call returns its set and never runs into the interpreter's recursion limit.
C5_FollowTerminates == alg.op = "follow" => pc # "RecursionError"

\* C13: follow(start_symbol) always contains the end marker: the set of the
\* call holds $ from its first line on, and the set it returns holds it.
C13_FollowStartHasEndMarker ==
    alg.op = "follow" /\ alg.symbol = start_symbol =>
        /\ call_stack # <<>> => "$" \in call_stack[1].set
        /\ pc = "returned" => "$" \in ret

\* C13's case: follow(start_symbol) has returned the end marker together with
\* a terminal that follows the start symbol in a production.
C13_Witness ==
    /\ alg.op = "follow"
    /\ alg.symbol = start_symbol
    /\ pc = "returned"
    /\ ret = {"$", ")"}

\* ------------------------------------------------------------ further parsers

\* A grammar under development: M is declared a non-terminal and has no
\* production yet (self.grammar.get(M, []) in closure).  After x the parser is
\* in the state {S -> x . M}, which has a goto edge and no action at all.
UndefinedArgs ==
    [grammar |-> << <<"S'", << <<"S">> >> >>,
                    <<"S",  << <<"x", "M">> >> >> >>,
     terminals |-> <<"x">>,
     non_terminals |-> <<"S", "M">>,
     start_symbol |-> "S'"]

\* S' -> S, S -> ( S ) | x: S is followed by ) as well as by the end marker.
NestedArgs ==
    [grammar |-> << <<"S'", << <<"S">> >> >>,
                    <<"S",  << <<"(", "S", ")">>, <<"x">> >> >> >>,
     terminals |-> <<"(", ")", "x">>,
     non_terminals |-> <<"S">>,
     start_symbol |-> "S'"]

\* The parsers constructed: the two above, that of __main__ and the one with
\* the shift/reduce conflict.
MoreParserArgs == ParserArgs \cup {UndefinedArgs, NestedArgs}

InitParsers == \E args \in MoreParserArgs : init_self(args) /\ Idle

\* A parser of one of the four grammars: constructed, then items() once, then
\* calls of parse.
SpecParsers == InitParsers /\ [][Next]_vars

\* The state indices of the automaton.
state_indices == 0..(Len(states) - 1)

\* items() has returned, and no call of parse has begun since or is running:
\* the parser is as items() left it, or as the calls of parse so far left it.
after_items == pc = "done" /\ outcome = "idle"

\* Row i of table d holds an entry for symbol.
has_entry(d, i, symbol) == i \in DOMAIN d /\ symbol \in DOMAIN d[i]

\* C11: states are deduplicated by structural equality and indexed in
\* discovery order: during items() and after it (between calls of parse, which
\* leave the state list alone), no two distinct indices of the
\* state list hold equal item sets, the initial state (the closure of the
\* start item) has index 0, every item set of the mapping is at the position
\* the mapping gives it, and the index in every shift and goto entry is the
\* position, in the state list, of the item set goto computes for that edge.
C11_StatesDeduplicated ==
    outcome = "idle" =>
        /\ \A i, j \in DOMAIN states : states[i] = states[j] => i = j
        /\ states # <<>> =>
              StateAt(0) = closure({<<start_symbol, Productions(start_symbol)[1], 0>>})
        /\ \A st \in DOMAIN state_mapping :
              state_mapping[st] \in state_indices /\ StateAt(state_mapping[st]) = st
        /\ \A i \in DOMAIN action_table : \A t \in DOMAIN action_table[i] :
              action_table[i][t][1] = "shift" =>
                  /\ action_table[i][t][2] \in state_indices
                  /\ StateAt(action_table[i][t][2]) = goto(StateAt(i), t)
        /\ \A i \in DOMAIN goto_table : \A n \in DOMAIN goto_table[i] :
              /\ goto_table[i][n] \in state_indices
              /\ StateAt(goto_table[i][n]) = goto(StateAt(i), n)

\* C11's case: items() has returned, and it met an item set again that it had
\* stored before: an edge leads back to the state it leaves, and the state
\* list holds fewer states than edges were recorded.
C11_Witness ==
    /\ after_items
    /\ \E i \in DOMAIN action_table : \E t \in DOMAIN action_table[i] :
          action_table[i][t] = <<"shift", i>>
    /\ Cardinality(recorded_edges) > Len(states)

\* The symbols FIRST and FOLLOW are asked for.
set_symbols == Keys \cup Range(non_terminals)

\* FIRST as equations: FIRST(N) holds the first symbol of each alternative of
\* N when it is a terminal, and FIRST of that symbol when it is not.
first_round(F) ==
    [N \in set_symbols |->
        UNION { IF production = <<>> THEN {}
                ELSE IF production[1] \in Range(terminals) THEN {production[1]}
                ELSE IF production[1] \in set_symbols THEN F[production[1]]
                ELSE {} : production \in Range(Productions(N)) }]

\* The least solution of a system of set equations, from below.
RECURSIVE first_solution(_)
first_solution(F) ==
    IF first_round(F) = F THEN F ELSE first_solution(first_round(F))

FIRST == first_solution([N \in set_symbols |-> {}])

\* FOLLOW as equations: FOLLOW(N) holds the end marker for the start symbol,
\* and for every occurrence of N in a production of lhs the terminal after it,
\* or FIRST of the non-terminal after it, or FOLLOW(lhs) when nothing is.
follow_round(W) ==
    [N \in set_symbols |->
        (IF N = start_symbol THEN {"$"} ELSE {})
        \cup
        UNION { IF pos[2][pos[3]] # N THEN {}
                ELSE IF pos[3] < Len(pos[2])
                THEN IF pos[2][pos[3] + 1] \in Range(terminals)
                     THEN {pos[2][pos[3] + 1]}
                     ELSE IF pos[2][pos[3] + 1] \in set_symbols
                     THEN FIRST[pos[2][pos[3] + 1]]
                     ELSE {}
                ELSE W[pos[1]] : pos \in Range(grammar_positions(1)) }]

RECURSIVE follow_solution(_)
follow_solution(W) ==
    IF follow_round(W) = W THEN W ELSE follow_solution(follow_round(W))

FOLLOW == follow_solution([N \in set_symbols |-> {}])

\* What the complete items of state i call for on symbol: accept for the
\* complete start item on the end marker, and for any other complete item
\* (lhs, rhs) the reduce by it on the terminals of FOLLOW(lhs).
called_for(i, symbol) ==
    { <<"accept">> : it \in { x \in complete_items(StateAt(i)) :
                                x[1] = start_symbol /\ symbol = "$" } }
    \cup
    { <<"reduce", it[1], it[2]>> :
        it \in { x \in complete_items(StateAt(i)) :
                   x[1] # start_symbol /\ symbol \in FOLLOW[x[1]] } }

\* The claim C12 as stated: after construction, for every state and every
\* grammar symbol on which the state has no outgoing shift/goto edge, neither
\* the action table nor the goto table has an entry for that pair.
C12_NoEntryWithoutEdge ==
    after_items =>
        \A i \in state_indices : \A symbol \in Range(symbols) :
            goto(StateAt(i), symbol) = {} =>
                /\ ~has_entry(action_table, i, symbol)
                /\ ~has_entry(goto_table, i, symbol)

\* C12, amended: after construction, for every state and every grammar symbol
\* on which the state has no outgoing shift/goto edge, the goto table has no
\* entry for that pair, and the action table has either no entry or the
\* reduce or accept that a complete item of the state calls for on that
\* symbol: never a shift, and never an action that nothing calls for.  The
\* tables hold no row and no column besides those of the states and symbols.
C12_OnlyCalledForWithoutEdge ==
    after_items =>
        /\ \A i \in state_indices : \A symbol \in Range(symbols) :
              goto(StateAt(i), symbol) = {} =>
                  /\ ~has_entry(goto_table, i, symbol)
                  /\ has_entry(action_table, i, symbol) =>
                        action_table[i][symbol] \in called_for(i, symbol)
        /\ DOMAIN action_table \subseteq state_indices
        /\ DOMAIN goto_table \subseteq state_indices
        /\ \A i \in DOMAIN action_table :
              DOMAIN action_table[i] \subseteq Range(terminals)
        /\ \A i \in DOMAIN goto_table :
              DOMAIN goto_table[i] \subseteq Range(non_terminals)

\* C12's case: items() has returned; a state without an edge on ) has the
\* reduce its complete item calls for there, and no entry on a terminal on
\* which nothing is called for.
C12_Witness ==
    /\ after_items
    /\ \E i \in state_indices :
          /\ goto(StateAt(i), ")") = {}
          /\ has_entry(action_table, i, ")")
          /\ action_table[i][")"][1] = "reduce"
          /\ goto(StateAt(i), "(") = {}
          /\ ~has_entry(action_table, i, "(")

\* C18: when a state has both a shift edge on a terminal t and a complete
\* item (lhs, rhs) with t in follow(lhs), the cell (state, t) of the action
\* table holds, after items(), the reduce that a complete item of the state
\* calls for on t, and not the shift: the reduces are written after the
\* shifts, and a write replaces what the cell held.  (No state has a shift
\* edge on the end marker, so accept replaces no shift.)  follow(lhs) is the
\* set the call of line 86 returns, which is FOLLOW(lhs) of the equations.
C18_ReduceReplacesShift ==
    /\ pc = "write" => ret = FOLLOW[cur_item[1]]
    /\ after_items =>
          \A i \in state_indices : \A t \in Range(terminals) :
              goto(StateAt(i), t) # {} /\ called_for(i, t) # {} =>
                  /\ has_entry(action_table, i, t)
                  /\ action_table[i][t] \in called_for(i, t)
                  /\ action_table[i][t][1] # "shift"

\* C18's case: items() has returned, and a state with a shift edge on t, to a
\* state it did store, holds a reduce in its cell on t.
C18_Witness ==
    /\ after_items
    /\ \E i \in state_indices : \E t \in Range(terminals) :
          /\ goto(StateAt(i), t) \in Range(states)
          /\ has_entry(action_table, i, t)
          /\ action_table[i][t][1] = "reduce"

\* C19: after items() the recorded edges are exactly the non-empty goto
\* results.  For every state index i and non-terminal N, the goto table has
\* the entry (i, N) = j if and only if goto(states[i], N) is non-empty and is
\* states[j]; and for every terminal t with goto(states[i], t) non-empty and
\* equal to states[j], the action cell (i, t) holds shift(j), unless a reduce
\* or accept called for by a complete item of state i was written to it later.
\* Every non-empty goto result is a state of the list.
C19_EdgesAreGotoResults ==
    after_items =>
        /\ \A i \in state_indices : \A N \in Range(non_terminals) :
              /\ \A j \in state_indices :
                    (has_entry(goto_table, i, N) /\ goto_table[i][N] = j)
                    <=> (goto(StateAt(i), N) # {} /\ goto(StateAt(i), N) = StateAt(j))
              /\ has_entry(goto_table, i, N) => goto_table[i][N] \in state_indices
              /\ goto(StateAt(i), N) # {} => goto(StateAt(i), N) \in Range(states)
        /\ \A i \in state_indices : \A t \in Range(terminals) :
              goto(StateAt(i), t) # {} =>
                  /\ goto(StateAt(i), t) \in Range(states)
                  /\ has_entry(action_table, i, t)
                  /\ \A j \in state_indices :
                        goto(StateAt(i), t) = StateAt(j) =>
                            \/ action_table[i][t] = <<"shift", j>>
                            \/ /\ action_table[i][t][1] \in {"reduce", "accept"}
                               /\ action_table[i][t] \in called_for(i, t)

\* C19's case: items() has returned, with goto entries, shift entries, and a
\* state that has no edge on some non-terminal and none on some terminal.
C19_Witness ==
    /\ after_items
    /\ \E i \in state_indices : \E N \in Range(non_terminals) :
          /\ has_entry(goto_table, i, N)
          /\ goto_table[i][N] > i + 1
          /\ \E M \in Range(non_terminals) : goto(StateAt(i), M) = {}
    /\ \E i \in state_indices : \E t \in Range(terminals) :
          /\ has_entry(action_table, i, t)
          /\ action_table[i][t] = <<"shift", i + 1>>
          /\ \E u \in Range(terminals) :
                goto(StateAt(i), u) = {} /\ ~has_entry(action_table, i, u)

\* The odd positions of a stack (its states) from the bottom up to `last`.
state_positions(last) == { k \in 1..last : k % 2 = 1 }

\* C14: at the start of every pass of the loop of parse the stack alternates
\* state, symbol, state, ..., state: its length is odd, its bottom entry is
\* state 0, every entry at an odd position (the top among them) is a state
\* index of the automaton, and each state above a symbol is the destination
\* of the edge from the state below on that symbol: its item set is goto of
\* the item set below, and the table entry of the state below on the symbol
\* (a shift for a terminal, the goto entry for a non-terminal) names it.
C14_StackAlternates ==
    outcome = "running" =>
        /\ Len(stack) % 2 = 1
        /\ stack[1] = 0
        /\ \A k \in state_positions(Len(stack)) : stack[k] \in state_indices
        /\ \A k \in state_positions(Len(stack) - 2) :
              /\ StateAt(stack[k + 2]) = goto(StateAt(stack[k]), stack[k + 1])
              /\ IF stack[k + 1] \in Range(terminals)
                 THEN /\ has_entry(action_table, stack[k], stack[k + 1])
                      /\ action_table[stack[k]][stack[k + 1]]
                             = <<"shift", stack[k + 2]>>
                 ELSE /\ has_entry(goto_table, stack[k], stack[k + 1])
                      /\ goto_table[stack[k]][stack[k + 1]] = stack[k + 2]

\* C14's case: a pass begins with shifted terminals and a reduced
\* non-terminal on the stack, seven entries deep.
C14_Witness ==
    /\ outcome = "running"
    /\ Len(stack) = 7
    /\ stack[2] \in Range(non_terminals)
    /\ stack[4] \in Range(terminals)
    /\ stack[6] \in Range(terminals)

\* The tokens the caller supplied: input_string without the appended marker.
supplied == SubSeq(input_string, 1, Len(input_string) - 1)

\* C20: for a token sequence that does not itself contain the end marker,
\* parse returns True only with the cursor on the appended end marker, never
\* with unread input remaining; and the cursor moves only in a shift, by one,
\* past the token that the shift pushes: so every supplied token has been
\* consumed by a shift when parse accepts.
C20_AcceptsOnlyAtEnd ==
    /\ [](outcome = "accept" /\ "$" \notin Range(supplied) =>
              /\ index = Len(supplied)
              /\ input_string[index + 1] = "$")
    /\ [][outcome = "running" /\ index' # index =>
              /\ index' = index + 1
              /\ Len(stack') = Len(stack) + 2
              /\ SubSeq(stack', 1, Len(stack)) = stack
              /\ stack'[Len(stack) + 1] = input_string[index + 1]]_vars

\* C20's case: parse has accepted three supplied tokens, none of them the end
\* marker, with the cursor on the appended one.
C20_Witness ==
    /\ outcome = "accept"
    /\ Len(supplied) = 3
    /\ "$" \notin Range(supplied)
    /\ index = 3

\* The claim C15: the action table and the goto table are immutable after
\* construction: whatever calls of parse have run since items() returned, and
\* however they ended, both tables have exactly the keys and the entries they
\* had when items() returned.
C15_TablesImmutable ==
    pc = "done" =>
        /\ action_table = run1.action_table
        /\ goto_table = run1.goto_table

\* ------------------------------------------------------ parse runs to its end

\* A call of parse that has begun goes on until it returns or raises: the
\* loop of lines 186-220 has no point at which it waits.
SpecFair == Init /\ [][Next]_vars /\ WF_vars(ParseStep)

\* The height of a symbol of the example grammar in its chain of unit
\* productions S -> E, E -> T, T -> F; a terminal is below them all.
symbol_rank(symbol) ==
    CASE symbol = "F" -> 1
      [] symbol = "T" -> 2
      [] symbol = "E" -> 3
      [] symbol = "S" -> 4
      [] OTHER -> 0

\* The rank of the symbol on top of the stack (below the top state).
top_rank(stk) == IF Len(stk) < 3 THEN 0 ELSE symbol_rank(stk[Len(stk) - 1])

\* C16: on the tables of the example grammar parse terminates on every token
\* sequence.  Every pass of its loop after which it goes on either shifts,
\* which moves the cursor one token on and leaves it on a token of the input,
\* or reduces, which leaves the cursor and either shortens the stack or keeps
\* its length and replaces the top symbol by one higher in the chain of unit
\* productions: so at most 4 reduces in a row leave the stack as long as it
\* is, and the reduces between two shifts are bounded by the stack's length.
\* A call that has begun therefore ends, in accept or in the syntax error.
C16_ParseTerminates ==
    /\ [][example /\ outcome = "running" /\ outcome' = "running" =>
            \/ /\ index' = index + 1
               /\ index' < Len(input_string)
               /\ Len(stack') = Len(stack) + 2
            \/ /\ index' = index
               /\ Len(stack') < Len(stack)
            \/ /\ index' = index
               /\ Len(stack') = Len(stack)
               /\ top_rank(stack') > top_rank(stack)]_vars
    /\ (example /\ outcome = "running") ~> (outcome \in {"accept", "SyntaxError"})

\* C16's case: parse of [id] has ended, in accept, after the four reduces in a
\* row (F, T, E, S) that follow the shift of id.
C16_Witness ==
    /\ example
    /\ input_string = <<"id", "$">>
    /\ outcome = "accept"
    /\ index = 1
    /\ Len(stack) = 3
    /\ stack[2] = "S"

\* ------------------------------------------------- two calls of parse at once

\* The token sequences of the two calls.
InterleavedInputs ==
    (UNION { TokenSeqs(n) : n \in 0..MaxInterleavedLen })
    \cup {ExampleInput, <<"id", "+">>}

\* Lines 180-182, twice: two calls of parse on the same constructed parser
\* (from two threads), each with its own input_string, stack and index.
ParseCallBoth ==
    /\ pc = "done"
    /\ outcome = "idle"
    /\ other.outcome = "idle"
    /\ \E inp \in InterleavedInputs : input_string' = inp \o <<"$">>
    /\ stack' = <<0>>
    /\ index' = 0
    /\ outcome' = "running"
    /\ error' = <<>>
    /\ \E inp \in InterleavedInputs :
          other' = [input_string |-> inp \o <<"$">>, stack |-> <<0>>, index |-> 0,
                    outcome |-> "running", error |-> <<>>]
    /\ UNCHANGED <<selfVars, tableVars, pc, loopVars, redVars, setVars, alg, runVars>>

\* A second call that keeps its cursor where the first call keeps its own
\* (index an attribute of the parser, not a local of the call).
OtherStepSharedIndex ==
    /\ other.outcome = "running"
    /\ LET pass == loop_pass(other.input_string, other.stack, index,
                             action_table, goto_table)
       IN /\ other' = [input_string |-> other.input_string, stack |-> pass.stack,
                       index |-> pass.index, outcome |-> pass.outcome,
                       error |-> pass.error]
          /\ index' = pass.index
          /\ action_table' = pass.action_table
          /\ goto_table' = pass.goto_table
    /\ UNCHANGED <<selfVars, states, state_count, pc, loopVars, redVars, setVars,
                   input_string, stack, outcome, error, alg, runVars>>

\* Lines 187-220: one pass of the loop of the second call, on its own locals
\* and the tables of the parser.
OtherStep ==
    /\ other.outcome = "running"
    /\ LET pass == loop_pass(other.input_string, other.stack, other.index,
                             action_table, goto_table)
       IN /\ other' = [input_string |-> other.input_string, stack |-> pass.stack,
                       index |-> pass.index, outcome |-> pass.outcome,
                       error |-> pass.error]
          /\ action_table' = pass.action_table
          /\ goto_table' = pass.goto_table
    /\ UNCHANGED <<selfVars, states, state_count, pc, loopVars, redVars, setVars,
                   input_string, stack, index, outcome, error, alg, runVars>>

NextInterleaved == ItemsNext \/ ParseCallBoth \/ ParseStep \/ OtherStep

\* items() once, then two calls of parse whose loop passes interleave.
SpecInterleaved == InitParsers /\ [][NextInterleaved]_vars

\* A call of parse run from locals stk, idx to its end with no other call
\* between its passes: how it ends, and where.
RECURSIVE run_to_end(_, _, _, _, _)
run_to_end(inp, stk, idx, at, gt) ==
    LET pass == loop_pass(inp, stk, idx, at, gt)
    IN IF pass.outcome = "running"
       THEN run_to_end(inp, pass.stack, pass.index, pass.action_table,
                       pass.goto_table)
       ELSE [outcome |-> pass.outcome, error |-> pass.error, index |-> pass.index]

\* parse(inp) run alone on the tables as items() built them.
alone(inp) == run_to_end(inp, <<0>>, 0, run1.action_table, run1.goto_table)

\* C17: two calls of parse interleaved pass by pass on the same constructed
\* tables, each with its own stack and cursor, end each as it ends when run
\* alone: in accept, or in the syntax error at the same position and symbol.
C17_InterleavedAsAlone ==
    /\ outcome \notin {"idle", "running"} =>
          /\ outcome \in {"accept", "SyntaxError"}
          /\ [outcome |-> outcome, error |-> error, index |-> index]
                 = alone(input_string)
    /\ other.outcome \notin {"idle", "running"} =>
          /\ other.outcome \in {"accept", "SyntaxError"}
          /\ [outcome |-> other.outcome, error |-> other.error,
              index |-> other.index] = alone(other.input_string)

\* C17's case: both calls have ended, one in accept and one in a syntax error
\* past its first token, each after several passes.
C17_Witness ==
    /\ outcome = "accept"
    /\ index > 0
    /\ other.outcome = "SyntaxError"
    /\ other.error[1] > 0
====
